---- MODULE Spec2Model ----
(***************************************************************************)
(* Kinematic character movement of the dream engine: the game loop         *)
(* (Engine.gameLoop), the player (Player.update), the pursuit agent        *)
(* (AIAgent.update) and the movement integrator (Physics.moveCharacter /   *)
(* Physics.moveAICharacter).                                               *)
(*                                                                         *)
(* Numbers are fixed point.  Time is counted in 1/100 s, velocities in     *)
(* 1/10000 m/s and lengths in 1/1000000 m, so that velocity * deltaTime is *)
(* a length without rounding and gravity (9.81 m/s^2) is 981 velocity      *)
(* units per time unit.  A JavaScript number is an integer of that scale   *)
(* or NaN; magnitudes are kept below MaxVel / MaxCoord by the guards, so   *)
(* overflow to +-Infinity is outside the model.                            *)
(***************************************************************************)
EXTENDS Integers, Naturals, Sequences, FiniteSets, TLC

----------------------------------------------------------------------------
(* Scales and bounds *)

TimePerSecond == 100
DirScale == 10000
LenReduce == 10000

MaxTicks == 4
MaxInputEvents == 3
MaxVel == 10000000
MaxCoord == 100000000
MaxCalls == 2
MaxNodes == 3
MaxUpdates == 3
MaxEngineCalls == 3
MaxFPS == 70

NaN == 2000000000

DeltaTimes == {20, 150}

----------------------------------------------------------------------------
(* JavaScript number arithmetic with NaN propagation *)

IsNaN(a) == a = NaN

FAdd(a, b) == IF IsNaN(a) \/ IsNaN(b) THEN NaN ELSE a + b

FSub(a, b) == IF IsNaN(a) \/ IsNaN(b) THEN NaN ELSE a - b

FMul(a, b) == IF IsNaN(a) \/ IsNaN(b) THEN NaN ELSE a * b

FLt(a, b) == ~IsNaN(a) /\ ~IsNaN(b) /\ a < b

FGt(a, b) == ~IsNaN(a) /\ ~IsNaN(b) /\ a > b

Abs(a) == IF a < 0 THEN -a ELSE a

Vec(a, b, c) == [x |-> a, y |-> b, z |-> c]

ZeroVec == Vec(0, 0, 0)

VAdd(u, v) == Vec(FAdd(u.x, v.x), FAdd(u.y, v.y), FAdd(u.z, v.z))

VecFinite(v) == ~IsNaN(v.x) /\ ~IsNaN(v.y) /\ ~IsNaN(v.z)

VecInRange(v, m) ==
    \A c \in {v.x, v.y, v.z} : IsNaN(c) \/ (c >= -m /\ c <= m)

RECURSIVE SqrtSearch(_, _, _)
SqrtSearch(n, lo, hi) ==
    IF lo >= hi THEN lo
    ELSE LET mid == (lo + hi + 1) \div 2
         IN  IF mid * mid <= n THEN SqrtSearch(n, mid, hi)
                               ELSE SqrtSearch(n, lo, mid - 1)

Isqrt(n) == SqrtSearch(n, 0, 46340)

RECURSIVE IntPow(_, _)
IntPow(b, n) == IF n = 0 THEN 1 ELSE b * IntPow(b, n - 1)

----------------------------------------------------------------------------
(* Program constants *)

Epsilon == 100
Gravity == 981
jumpSpeed == 60000
moveSpeed == 50000
friction == 15
acceleration == 50
aiMoveSpeed == 25000
followDistance == 1500000
InitialPathfindingRate == 10
PlayerStart == Vec(0, 2000000, 5000000)
FallbackModelStart == Vec(-3000000, 500000, -3000000)
BodyAboveModel == 500000
CameraAboveBody == 800000
ModelAboveBody == 2500000

(* Level geometry: the ground cuboid(20, 1, 20) centred at (0, -1, 0), and *)
(* the distance from a capsule's centre to its lowest point.               *)
FloorHalf == 20000000
FloorThickness == 2000000
PlayerRest == 1200000
AgentRest == 600000
ControllerOffset == 10000

Codes == {"keyw", "keys", "keya", "keyd", "space"}

(* The horizontal part of Camera.getDirection(), normalised.  The pointer   *)
(* is never locked here, so onMouseMove returns early and the camera keeps *)
(* the direction it is built with, looking down -z.                        *)
cameraHeading == [fx |-> 0, fz |-> -DirScale]

----------------------------------------------------------------------------
(* The character controller (rapier), as seen by Physics: a corrected      *)
(* movement and a grounded flag for a capsule over the ground cuboid.      *)
(* nanZero chooses what the controller answers to a non-finite request:    *)
(* no movement at all, or the non-finite components handed back.           *)

OverFloor(x, z) ==
    /\ ~IsNaN(x) /\ ~IsNaN(z)
    /\ Abs(x) <= FloorHalf /\ Abs(z) <= FloorHalf

InFloorBand(bottom) == bottom <= 0 /\ bottom >= -FloorThickness

InsideFloor(rest, p) ==
    /\ VecFinite(p)
    /\ OverFloor(p.x, p.z)
    /\ p.y - rest < 0
    /\ p.y + rest > -FloorThickness

CorrectY(rest, p, d, cx, cz) ==
    LET bottom == p.y - rest
    IN  IF d.y < 0 /\ OverFloor(FAdd(p.x, cx), FAdd(p.z, cz)) /\ bottom >= -FloorThickness
        THEN IF bottom <= 0 THEN 0
             ELSE IF d.y < -bottom THEN -bottom ELSE d.y
        ELSE d.y

(* a controller whose snap-to-ground pulls the capsule down by the         *)
(* controller offset on every request, a request for no movement included *)
computeColliderMovementSnapping(rest, p, d, nanZero) ==
    IF ~VecFinite(p) \/ ~VecFinite(d)
    THEN [movement |-> ZeroVec, grounded |-> FALSE]
    ELSE [movement |-> Vec(d.x, CorrectY(rest, p, d, d.x, d.z) - ControllerOffset, d.z),
          grounded |-> OverFloor(p.x + d.x, p.z + d.z)]

computeColliderMovement(rest, p, d, nanZero) ==
    IF ~VecFinite(p) THEN
        [movement |-> IF nanZero THEN ZeroVec ELSE Vec(NaN, NaN, NaN), grounded |-> FALSE]
    ELSE IF ~VecFinite(d) THEN
        IF nanZero
        THEN [movement |-> ZeroVec,
              grounded |-> OverFloor(p.x, p.z) /\ InFloorBand(p.y - rest)]
        ELSE [movement |-> Vec(d.x, IF IsNaN(d.y) THEN NaN ELSE CorrectY(rest, p, d, d.x, d.z), d.z),
              grounded |-> FALSE]
    ELSE
        LET cy == CorrectY(rest, p, d, d.x, d.z)
        IN  [movement |-> Vec(d.x, cy, d.z),
             grounded |-> OverFloor(p.x + d.x, p.z + d.z) /\ InFloorBand(p.y + cy - rest)]

InitialController == [movement |-> ZeroVec, grounded |-> FALSE]

----------------------------------------------------------------------------
(* Physics.moveCharacter / Physics.moveAICharacter *)

FAbsLt(a, e) == ~IsNaN(a) /\ Abs(a) < e

FAbsGt(a, e) == ~IsNaN(a) /\ Abs(a) > e

(* finalMovement without the vertical override *)
finalMovementCorrected(desired, corrected) == corrected

(* finalMovement taking the desired horizontal components as well *)
finalMovementDesiredHorizontal(desired, corrected) ==
    Vec(desired.x,
        IF FAbsLt(corrected.x, Epsilon) /\ FAbsLt(corrected.z, Epsilon)
              /\ FAbsGt(desired.y, Epsilon)
        THEN desired.y
        ELSE corrected.y,
        desired.z)

(* The movement committed: the corrected one, with the desired vertical    *)
(* component when the corrected horizontal ones are both below the epsilon *)
(* and the desired vertical one is above it.                               *)
finalMovement(desired, corrected) ==
    Vec(corrected.x,
        IF FAbsLt(corrected.x, Epsilon) /\ FAbsLt(corrected.z, Epsilon)
              /\ FAbsGt(desired.y, Epsilon)
        THEN desired.y
        ELSE corrected.y,
        corrected.z)

(* moveCharacter without its first test: the call goes on to the controller *)
moveCharacterUnguarded(hasController, hasCollider, hasParent, ctrl, pos, desired, answer) ==
    [pos |-> VAdd(pos, finalMovement(desired, answer.movement)),
     ctrl |-> answer, logged |-> 0, committed |-> TRUE,
     final |-> finalMovement(desired, answer.movement), returned |-> FALSE]

(* The call on a handle: hasController / hasCollider / hasParent say which *)
(* parts of the handle exist; answer is what the controller computes.      *)
moveCharacter(hasController, hasCollider, hasParent, ctrl, pos, desired, answer) ==
    IF ~hasController \/ ~hasCollider
    THEN [pos |-> pos, ctrl |-> ctrl, logged |-> 1, committed |-> FALSE,
          final |-> ZeroVec, returned |-> TRUE]
    ELSE IF ~hasParent
    THEN [pos |-> pos, ctrl |-> answer, logged |-> 0, committed |-> FALSE,
          final |-> ZeroVec, returned |-> TRUE]
    ELSE [pos |-> VAdd(pos, finalMovement(desired, answer.movement)),
          ctrl |-> answer, logged |-> 0, committed |-> TRUE,
          final |-> finalMovement(desired, answer.movement), returned |-> TRUE]

moveAICharacter(hasAIController, hasCollider, hasParent, ctrl, pos, desired, answer) ==
    IF ~hasAIController \/ ~hasCollider
    THEN [pos |-> pos, ctrl |-> ctrl, logged |-> 1, committed |-> FALSE,
          final |-> ZeroVec, returned |-> TRUE]
    ELSE IF ~hasParent
    THEN [pos |-> pos, ctrl |-> answer, logged |-> 0, committed |-> FALSE,
          final |-> ZeroVec, returned |-> TRUE]
    ELSE [pos |-> VAdd(pos, finalMovement(desired, answer.movement)),
          ctrl |-> answer, logged |-> 0, committed |-> TRUE,
          final |-> finalMovement(desired, answer.movement), returned |-> TRUE]

isGrounded(hasController, hasCollider, ctrl) ==
    IF ~hasController \/ ~hasCollider THEN FALSE ELSE ctrl.grounded

isAIGrounded(hasAIController, hasCollider, ctrl) ==
    IF ~hasAIController \/ ~hasCollider THEN FALSE ELSE ctrl.grounded

(* What is kept of a call: its arguments (is there a controller, is the    *)
(* collider non-null, the desired translation), the state it started from  *)
(* and what it did.                                                        *)
CallRecord(hasController, hasCollider, desired, answer, pos, ctrl, errs, r) ==
    [called |-> TRUE, controller |-> hasController, collider |-> hasCollider,
     desired |-> desired, corrected |-> answer.movement, from |-> pos,
     ctrl0 |-> ctrl, errors0 |-> errs,
     committed |-> r.committed, final |-> r.final, returned |-> r.returned]

NoCall == [called |-> FALSE, controller |-> TRUE, collider |-> TRUE,
           desired |-> ZeroVec, corrected |-> ZeroVec, from |-> ZeroVec,
           ctrl0 |-> InitialController, errors0 |-> 0,
           committed |-> FALSE, final |-> ZeroVec, returned |-> FALSE]

----------------------------------------------------------------------------
(* Player *)

Lerp(a, b, tn, td) ==
    IF IsNaN(a) \/ IsNaN(b) THEN NaN ELSE ((td - tn) * a + tn * b) \div td

(* Math.pow(1 - friction, deltaTime): a negative base has a real power     *)
(* only for a whole number of seconds.                                     *)
decelerationFactor(dt) ==
    IF 1 - friction < 0 /\ dt % TimePerSecond # 0 THEN NaN
    ELSE IntPow(1 - friction, dt \div TimePerSecond)

inputDirection(ks, h) ==
    LET rx == -h.fz
        rz == h.fx
        w == IF "keyw" \in ks THEN 1 ELSE 0
        s == IF "keys" \in ks THEN 1 ELSE 0
        a == IF "keya" \in ks THEN 1 ELSE 0
        d == IF "keyd" \in ks THEN 1 ELSE 0
    IN  [x |-> (w - s) * h.fx + (d - a) * rx, z |-> (w - s) * h.fz + (d - a) * rz]

Normalize2(v) ==
    LET len == Isqrt(v.x * v.x + v.z * v.z)
    IN  IF len = 0 THEN [x |-> 0, z |-> 0]
        ELSE [x |-> (v.x * DirScale) \div len, z |-> (v.z * DirScale) \div len]

handleMovement(vel, ks, h, dt) ==
    LET dir == inputDirection(ks, h)
    IN  IF dir.x # 0 \/ dir.z # 0
        THEN LET n == Normalize2(dir)
                 tx == (n.x * moveSpeed) \div DirScale
                 tz == (n.z * moveSpeed) \div DirScale
                 vx == IF IsNaN(vel.x) THEN 0 ELSE vel.x
                 vz == IF IsNaN(vel.z) THEN 0 ELSE vel.z
             IN  Vec(Lerp(vx, tx, dt * acceleration, TimePerSecond),
                     vel.y,
                     Lerp(vz, tz, dt * acceleration, TimePerSecond))
        ELSE IF ~IsNaN(vel.x) /\ ~IsNaN(vel.z)
             THEN Vec(FMul(vel.x, decelerationFactor(dt)), vel.y,
                      FMul(vel.z, decelerationFactor(dt)))
             ELSE vel

(* handleJump without the grounded test *)
handleJumpAirborne(vel, ks, grounded) ==
    IF "space" \in ks THEN Vec(vel.x, jumpSpeed, vel.z) ELSE vel

handleJump(vel, ks, grounded) ==
    IF "space" \in ks /\ grounded THEN Vec(vel.x, jumpSpeed, vel.z) ELSE vel

(* applyGravity without the reset of a negative vertical velocity *)
applyGravityNoClamp(vel, grounded, dt) ==
    IF ~grounded THEN Vec(vel.x, FAdd(vel.y, -Gravity * dt), vel.z) ELSE vel

(* applyGravity setting the fall speed of one tick instead of adding to it *)
applyGravityNoAccumulation(vel, grounded, dt) ==
    IF ~grounded THEN Vec(vel.x, -Gravity * dt, vel.z)
    ELSE IF FLt(vel.y, 0) THEN Vec(vel.x, 0, vel.z)
    ELSE vel

(* The gravity / grounding step shared by applyMovement and updateMovement *)
applyGravity(vel, grounded, dt) ==
    IF ~grounded THEN Vec(vel.x, FAdd(vel.y, -Gravity * dt), vel.z)
    ELSE IF FLt(vel.y, 0) THEN Vec(vel.x, 0, vel.z)
    ELSE vel

translationOf(vel, dt) == Vec(FMul(vel.x, dt), FMul(vel.y, dt), FMul(vel.z, dt))

(* Player.update: handleMovement, handleJump, applyMovement and           *)
(* syncCameraWithPhysics.  events: the calls it makes on the physics world *)
(* and the body, in the order it makes them.                               *)
PlayerTick(hasController, errs, vel, pos, ctrl, ks, h, dt, nanZero) ==
    LET g == isGrounded(hasController, TRUE, ctrl)
        v1 == handleMovement(vel, ks, h, dt)
        v2 == handleJump(v1, ks, g)
        v3 == applyGravity(v2, g, dt)
        t == translationOf(v3, dt)
        moves == FAbsGt(t.x, Epsilon) \/ FAbsGt(t.z, Epsilon) \/ FAbsGt(t.y, Epsilon)
        answer == computeColliderMovement(PlayerRest, pos, t, nanZero)
        r == moveCharacter(hasController, TRUE, TRUE, ctrl, pos, t, answer)
    IN  IF moves
        THEN [vel |-> v3, pos |-> r.pos, ctrl |-> r.ctrl, logged |-> r.logged,
              velA |-> v2, grounded |-> g, translation |-> t,
              events |-> <<"moveCharacter", "syncCamera">>,
              call |-> CallRecord(hasController, TRUE, t, answer, pos, ctrl, errs, r)]
        ELSE [vel |-> v3, pos |-> pos, ctrl |-> ctrl, logged |-> 0,
              velA |-> v2, grounded |-> g, translation |-> t,
              events |-> <<"syncCamera">>, call |-> NoCall]

----------------------------------------------------------------------------
(* AIAgent *)

planarLength(dx, dz) ==
    IF IsNaN(dx) \/ IsNaN(dz) THEN NaN
    ELSE LET rx == Abs(dx) \div LenReduce
             rz == Abs(dz) \div LenReduce
         IN  Isqrt(rx * rx + rz * rz) * LenReduce

Sign(a) == IF a < 0 THEN -1 ELSE 1

normalizeTo(d, len) == Sign(d) * (((Abs(d) \div LenReduce) * DirScale) \div (len \div LenReduce))

(* updatePathfinding without the rate test: the target follows every tick *)
updatePathfindingEveryTick(last, rate, target, playerPos, dt) ==
    [last |-> 0, target |-> playerPos, refreshed |-> TRUE]

(* updatePathfinding that assigns the duration to the accumulator instead  *)
(* of adding it                                                            *)
updatePathfindingOverwriting(last, rate, target, playerPos, dt) ==
    IF dt >= rate
    THEN [last |-> 0, target |-> playerPos, refreshed |-> TRUE]
    ELSE [last |-> dt, target |-> target, refreshed |-> FALSE]

(* updatePathfinding that keeps the time beyond the period for the next    *)
(* refresh                                                                 *)
updatePathfindingCarryOver(last, rate, target, playerPos, dt) ==
    IF last + dt >= rate
    THEN [last |-> last + dt - rate, target |-> playerPos, refreshed |-> TRUE]
    ELSE [last |-> last + dt, target |-> target, refreshed |-> FALSE]

(* AIAgent.updatePathfinding: the time accumulated since the last refresh  *)
(* against the current rate.                                               *)
updatePathfinding(last, rate, target, playerPos, dt) ==
    IF last + dt >= rate
    THEN [last |-> 0, target |-> playerPos, refreshed |-> TRUE]
    ELSE [last |-> last + dt, target |-> target, refreshed |-> FALSE]

(* updateMovement with the follow distance taken to be 0 *)
updateMovementNoThreshold(hasController, errs, vel, pos, ctrl, rot, target, dt, nanZero) ==
    LET dx == FSub(target.x, pos.x)
        dz == FSub(target.z, pos.z)
        distanceToTarget == planarLength(dx, dz)
    IN  IF FGt(distanceToTarget, 0)
        THEN LET vx == (normalizeTo(dx, distanceToTarget) * aiMoveSpeed) \div DirScale
                 vz == (normalizeTo(dz, distanceToTarget) * aiMoveSpeed) \div DirScale
                 g == isAIGrounded(hasController, TRUE, ctrl)
                 v == applyGravity(Vec(vx, vel.y, vz), g, dt)
                 t == translationOf(v, dt)
                 answer == computeColliderMovement(AgentRest, pos, t, nanZero)
                 r == moveAICharacter(hasController, TRUE, TRUE, ctrl, pos, t, answer)
             IN  [vel |-> v, pos |-> r.pos, ctrl |-> r.ctrl, logged |-> r.logged,
                  queried |-> TRUE, grounded |-> g,
                  rot |-> IF Abs(v.x) > 1000 \/ Abs(v.z) > 1000
                          THEN [sx |-> v.x, sz |-> v.z] ELSE rot,
                  dist |-> distanceToTarget,
                  call |-> CallRecord(hasController, TRUE, t, answer, pos, ctrl, errs, r)]
        ELSE [vel |-> vel, pos |-> pos, ctrl |-> ctrl, logged |-> 0,
              queried |-> FALSE, grounded |-> FALSE, rot |-> rot,
              dist |-> distanceToTarget, call |-> NoCall]

(* AIAgent.updateMovement on a body at pos with controller ctrl.           *)
updateMovement(hasController, errs, vel, pos, ctrl, rot, target, dt, nanZero) ==
    LET dx == FSub(target.x, pos.x)
        dz == FSub(target.z, pos.z)
        distanceToTarget == planarLength(dx, dz)
    IN  IF FGt(distanceToTarget, followDistance)
        THEN LET vx == (normalizeTo(dx, distanceToTarget) * aiMoveSpeed) \div DirScale
                 vz == (normalizeTo(dz, distanceToTarget) * aiMoveSpeed) \div DirScale
                 g == isAIGrounded(hasController, TRUE, ctrl)
                 v == applyGravity(Vec(vx, vel.y, vz), g, dt)
                 t == translationOf(v, dt)
                 answer == computeColliderMovement(AgentRest, pos, t, nanZero)
                 r == moveAICharacter(hasController, TRUE, TRUE, ctrl, pos, t, answer)
             IN  [vel |-> v, pos |-> r.pos, ctrl |-> r.ctrl, logged |-> r.logged,
                  queried |-> TRUE, grounded |-> g,
                  rot |-> IF Abs(v.x) > 1000 \/ Abs(v.z) > 1000
                          THEN [sx |-> v.x, sz |-> v.z] ELSE rot,
                  dist |-> distanceToTarget,
                  call |-> CallRecord(hasController, TRUE, t, answer, pos, ctrl, errs, r)]
        ELSE [vel |-> vel, pos |-> pos, ctrl |-> ctrl, logged |-> 0,
              queried |-> FALSE, grounded |-> FALSE, rot |-> rot,
              dist |-> distanceToTarget, call |-> NoCall]

FPSUpdatePeriod == 100

(* the three periods handed out the other way round *)
getOptimizationSettingsInverted(fps) ==
    IF fps < 30 THEN 10 ELSE IF fps < 45 THEN 20 ELSE 50

(* PerformanceOptimizer.getOptimizationSettings(fps).pathfindingRate *)
getOptimizationSettings(fps) ==
    IF fps < 30 THEN 50 ELSE IF fps < 45 THEN 20 ELSE 10

----------------------------------------------------------------------------
(* State *)

VARIABLES
    pc,                     \* "frame": the loop is waiting for its next animation frame
    ticks,                  \* game-loop passes so far
    deltaTime,              \* clock.getDelta() of the current pass
    inputEvents,            \* DOM events delivered so far
    keys,                   \* Player.keys
    pVel, pPos, pCtrl,      \* Player.velocity, player body translation, characterController
    cameraPos,              \* camera position
    pTick,                  \* the last Player.update: what it started from and its moveCharacter call
    aReady,                 \* AIAgent.model and AIAgent.physicsBody exist
    aVel, aPos, aCtrl,      \* AIAgent.velocity, agent body translation, aiCharacterController
    targetPosition, lastPathfindingUpdate, pathfindingUpdateRate, trackingEnabled,
    modelRotation, modelPos,
    aTick,                  \* the last AIAgent.update: what it started from and its moveAICharacter call
    frameCount, fpsWindow, averageFPS,  \* PerformanceOptimizer counters
    physics,                \* which character controllers Physics holds
    errors,                 \* Log.error lines written so far
    calls,                  \* direct calls of the Physics interface so far
    tickEvents,             \* what the last pass of the loop called, in order
    model,                  \* the nodes of the model handed to createModelCollider
    colliders,              \* what createModelCollider returned (<<>>: not called)
    targetCopied,           \* targetPosition has been copied from the player
    sinceRefresh,           \* pursuing updates of the agent since its last target refresh
    engine                  \* Engine.isRunning and the animation-frame callbacks

vars == <<pc, ticks, deltaTime, inputEvents, keys, pVel, pPos, pCtrl, physics, errors, calls,
          cameraPos, pTick, aReady, aVel, aPos, aCtrl, targetPosition,
          lastPathfindingUpdate, pathfindingUpdateRate, trackingEnabled,
          modelRotation, modelPos, aTick, frameCount, fpsWindow, averageFPS,
          tickEvents, model, colliders, targetCopied, sinceRefresh, engine>>

playerVars == <<pVel, pPos, pCtrl, cameraPos, pTick>>

agentVars == <<aVel, aPos, aCtrl, targetPosition, targetCopied, sinceRefresh,
               lastPathfindingUpdate,
               modelRotation, modelPos, aTick>>

perfVars == <<frameCount, averageFPS>>

inputVars == <<keys, trackingEnabled, inputEvents>>

physicsVars == <<physics, calls>>

levelVars == <<model, colliders>>

(* everything but the engine's own state *)
worldVars == <<pc, ticks, deltaTime, inputVars, playerVars, aReady, agentVars,
               pathfindingUpdateRate, perfVars, fpsWindow, physicsVars, errors,
               tickEvents, levelVars>>

(* vel0 / pos0 / keys0: the state the update started from; grounded: what  *)
(* the grounded query answered (queried: whether it was asked); velA: the  *)
(* velocity applyMovement started from.                                    *)
NoPlayerTick == [ran |-> FALSE, vel0 |-> ZeroVec, velA |-> ZeroVec, grounded |-> FALSE,
                 keys0 |-> {}, pos0 |-> ZeroVec, translation |-> ZeroVec, call |-> NoCall]

NoAgentTick == [ran |-> FALSE, pursuing |-> FALSE, refreshed |-> FALSE, vel0 |-> ZeroVec,
                queried |-> FALSE, grounded |-> FALSE, ctrl0 |-> InitialController,
                pos0 |-> ZeroVec, last0 |-> 0, rate0 |-> InitialPathfindingRate,
                dist |-> 0, call |-> NoCall]

(* Engine.isRunning and the callbacks handed to requestAnimationFrame:     *)
(* pending are those asked for the next animation frame, due those of the  *)
(* current frame that have not run yet, steps the world steps made in the  *)
(* current frame, calls the start / stop calls made on the engine.  phase   *)
(* is where main() is: "loading" while it awaits Engine.init, "failed"     *)
(* when that rejected, "started" once it has called Engine.start.          *)
EngineStarted ==
    [phase |-> "started", isRunning |-> TRUE, pending |-> 1, due |-> 0, steps |-> 0,
     calls |-> 0]

requestAnimationFrame(e) == [e EXCEPT !.pending = @ + 1]

(* Time since page load at the first frame, in time units *)
PageTimes == {50, 300}

Constructed ==
    /\ pc = "frame"
    /\ ticks = 0
    /\ deltaTime = 0
    /\ inputEvents = 0
    /\ keys = {}
    /\ pVel = ZeroVec
    /\ pPos = PlayerStart
    /\ pCtrl = InitialController
    /\ cameraPos = PlayerStart
    /\ pTick = NoPlayerTick
    /\ aVel = ZeroVec
    /\ aPos = IF aReady
              THEN Vec(FallbackModelStart.x, FallbackModelStart.y + BodyAboveModel,
                       FallbackModelStart.z)
              ELSE ZeroVec
    /\ aCtrl = InitialController
    /\ targetPosition = ZeroVec
    /\ targetCopied = FALSE
    /\ sinceRefresh = 0
    /\ lastPathfindingUpdate = 0
    /\ pathfindingUpdateRate = InitialPathfindingRate
    /\ trackingEnabled = FALSE
    /\ modelRotation = [sx |-> 0, sz |-> 1]
    /\ modelPos = FallbackModelStart
    /\ aTick = NoAgentTick
    /\ frameCount = 0
    /\ averageFPS = 60
    /\ errors = 0
    /\ calls = 0
    /\ tickEvents = <<>>

(* Engine.init has run: Physics.init has built both controllers; the agent *)
(* has its model and body unless its construction failed.                  *)
Init ==
    /\ aReady \in BOOLEAN
    /\ fpsWindow \in PageTimes
    /\ physics = [characterController |-> TRUE, aiCharacterController |-> TRUE]
    /\ model = <<>> /\ colliders = <<>>
    /\ engine = EngineStarted
    /\ Constructed

----------------------------------------------------------------------------
(* Input events, delivered between frames *)

KeyDown ==
    /\ pc = "frame" /\ inputEvents < MaxInputEvents
    /\ \E k \in Codes \ keys : keys' = keys \cup {k}
    /\ inputEvents' = inputEvents + 1
    /\ UNCHANGED <<pc, ticks, deltaTime, trackingEnabled, playerVars, aReady,
                   agentVars, pathfindingUpdateRate, perfVars, fpsWindow,
                   physicsVars, errors, tickEvents, levelVars, engine>>

KeyUp ==
    /\ pc = "frame" /\ inputEvents < MaxInputEvents
    /\ \E k \in keys : keys' = keys \ {k}
    /\ inputEvents' = inputEvents + 1
    /\ UNCHANGED <<pc, ticks, deltaTime, trackingEnabled, playerVars, aReady,
                   agentVars, pathfindingUpdateRate, perfVars, fpsWindow,
                   physicsVars, errors, tickEvents, levelVars, engine>>

(* Enter: AIAgent.toggleTracking *)
toggleTracking ==
    /\ pc = "frame" /\ inputEvents < MaxInputEvents
    /\ trackingEnabled' = ~trackingEnabled
    /\ inputEvents' = inputEvents + 1
    /\ UNCHANGED <<pc, ticks, deltaTime, keys, playerVars, aReady,
                   agentVars, pathfindingUpdateRate, perfVars, fpsWindow,
                   physicsVars, errors, tickEvents, levelVars, engine>>

----------------------------------------------------------------------------
(* Engine.gameLoop *)

(* The velocities whose interpolation stays inside the modelled range *)
LerpInRange(a, dt) ==
    IsNaN(a) \/ Abs(a) <= 1000000000 \div (Abs(TimePerSecond - dt * acceleration) + 1)

(* The controller's answer is a choice only for a non-finite request *)
NonFiniteCall(call) ==
    call.called /\ (~VecFinite(call.desired) \/ ~VecFinite(call.from))

(* AIAgent.update whose sync, when idle, moves the body to the model      *)
(* instead of the model to the body                                        *)
AgentTickSyncToBody(hasController, errs, ready, tracking, vel, pos, ctrl, rot, target, last, rate, mpos, playerPos, dt, nanZero) ==
    IF ~ready
    THEN [vel |-> vel, pos |-> pos, ctrl |-> ctrl, rot |-> rot, target |-> target,
          last |-> last, mpos |-> mpos, call |-> NoCall, refreshed |-> FALSE,
          logged |-> 0, queried |-> FALSE, grounded |-> FALSE,
          ran |-> FALSE, pursuing |-> FALSE, dist |-> 0, events |-> <<>>]
    ELSE IF ~tracking
    THEN [vel |-> vel, pos |-> VAdd(mpos, Vec(0, -ModelAboveBody, 0)), ctrl |-> ctrl,
          rot |-> rot, target |-> target,
          last |-> last, mpos |-> mpos,
          call |-> NoCall, refreshed |-> FALSE,
          logged |-> 0, queried |-> FALSE, grounded |-> FALSE,
          ran |-> TRUE, pursuing |-> FALSE, dist |-> 0, events |-> <<"syncModel">>]
    ELSE LET pf == updatePathfinding(last, rate, target, playerPos, dt)
             r == updateMovement(hasController, errs, vel, pos, ctrl, rot, pf.target, dt, nanZero)
         IN  [vel |-> r.vel, pos |-> r.pos, ctrl |-> r.ctrl, rot |-> r.rot,
              target |-> pf.target, last |-> pf.last,
              mpos |-> VAdd(r.pos, Vec(0, ModelAboveBody, 0)),
              call |-> r.call, refreshed |-> pf.refreshed,
              logged |-> r.logged, queried |-> r.queried, grounded |-> r.grounded,
              ran |-> TRUE, pursuing |-> TRUE, dist |-> r.dist,
              events |-> (IF pf.refreshed THEN <<"getPosition">> ELSE <<>>)
                         \o <<"translation">>
                         \o (IF r.call.called THEN <<"moveAICharacter">> ELSE <<>>)
                         \o <<"syncModel">>]

(* AIAgent.update that brings an idle agent to rest and restarts its       *)
(* refresh period                                                          *)
AgentTickIdleReset(hasController, errs, ready, tracking, vel, pos, ctrl, rot, target, last, rate, mpos, playerPos, dt, nanZero) ==
    IF ~ready
    THEN [vel |-> vel, pos |-> pos, ctrl |-> ctrl, rot |-> rot, target |-> target,
          last |-> last, mpos |-> mpos, call |-> NoCall, refreshed |-> FALSE,
          logged |-> 0, queried |-> FALSE, grounded |-> FALSE,
          ran |-> FALSE, pursuing |-> FALSE, dist |-> 0, events |-> <<>>]
    ELSE IF ~tracking
    THEN [vel |-> ZeroVec, pos |-> pos, ctrl |-> ctrl, rot |-> rot, target |-> target,
          last |-> 0, mpos |-> VAdd(pos, Vec(0, ModelAboveBody, 0)),
          call |-> NoCall, refreshed |-> FALSE,
          logged |-> 0, queried |-> FALSE, grounded |-> FALSE,
          ran |-> TRUE, pursuing |-> FALSE, dist |-> 0, events |-> <<"syncModel">>]
    ELSE LET pf == updatePathfinding(last, rate, target, playerPos, dt)
             r == updateMovement(hasController, errs, vel, pos, ctrl, rot, pf.target, dt, nanZero)
         IN  [vel |-> r.vel, pos |-> r.pos, ctrl |-> r.ctrl, rot |-> r.rot,
              target |-> pf.target, last |-> pf.last,
              mpos |-> VAdd(r.pos, Vec(0, ModelAboveBody, 0)),
              call |-> r.call, refreshed |-> pf.refreshed,
              logged |-> r.logged, queried |-> r.queried, grounded |-> r.grounded,
              ran |-> TRUE, pursuing |-> TRUE, dist |-> r.dist,
              events |-> (IF pf.refreshed THEN <<"getPosition">> ELSE <<>>)
                         \o <<"translation">>
                         \o (IF r.call.called THEN <<"moveAICharacter">> ELSE <<>>)
                         \o <<"syncModel">>]

(* AIAgent.update without its first test: an agent without model or body   *)
(* is updated like any other                                               *)
AgentTickUnguarded(hasController, errs, ready, tracking, vel, pos, ctrl, rot, target, last, rate, mpos, playerPos, dt, nanZero) ==
    IF ~tracking
    THEN [vel |-> vel, pos |-> pos, ctrl |-> ctrl, rot |-> rot, target |-> target,
          last |-> last, mpos |-> VAdd(pos, Vec(0, ModelAboveBody, 0)),
          call |-> NoCall, refreshed |-> FALSE,
          logged |-> 0, queried |-> FALSE, grounded |-> FALSE,
          ran |-> TRUE, pursuing |-> FALSE, dist |-> 0, events |-> <<"syncModel">>]
    ELSE LET pf == updatePathfinding(last, rate, target, playerPos, dt)
             r == updateMovement(hasController, errs, vel, pos, ctrl, rot, pf.target, dt, nanZero)
         IN  [vel |-> r.vel, pos |-> r.pos, ctrl |-> r.ctrl, rot |-> r.rot,
              target |-> pf.target, last |-> pf.last,
              mpos |-> VAdd(r.pos, Vec(0, ModelAboveBody, 0)),
              call |-> r.call, refreshed |-> pf.refreshed,
              logged |-> r.logged, queried |-> r.queried, grounded |-> r.grounded,
              ran |-> TRUE, pursuing |-> TRUE, dist |-> r.dist,
              events |-> (IF pf.refreshed THEN <<"getPosition">> ELSE <<>>)
                         \o <<"translation">>
                         \o (IF r.call.called THEN <<"moveAICharacter">> ELSE <<>>)
                         \o <<"syncModel">>]

(* AIAgent.update.  events: the calls it makes on the physics world, the  *)
(* player and its body, in the order it makes them.                        *)
AgentTick(hasController, errs, ready, tracking, vel, pos, ctrl, rot, target, last, rate, mpos, playerPos, dt, nanZero) ==
    IF ~ready
    THEN [vel |-> vel, pos |-> pos, ctrl |-> ctrl, rot |-> rot, target |-> target,
          last |-> last, mpos |-> mpos, call |-> NoCall, refreshed |-> FALSE,
          logged |-> 0, queried |-> FALSE, grounded |-> FALSE,
          ran |-> FALSE, pursuing |-> FALSE, dist |-> 0, events |-> <<>>]
    ELSE IF ~tracking
    THEN [vel |-> vel, pos |-> pos, ctrl |-> ctrl, rot |-> rot, target |-> target,
          last |-> last, mpos |-> VAdd(pos, Vec(0, ModelAboveBody, 0)),
          call |-> NoCall, refreshed |-> FALSE,
          logged |-> 0, queried |-> FALSE, grounded |-> FALSE,
          ran |-> TRUE, pursuing |-> FALSE, dist |-> 0, events |-> <<"syncModel">>]
    ELSE LET pf == updatePathfinding(last, rate, target, playerPos, dt)
             r == updateMovement(hasController, errs, vel, pos, ctrl, rot, pf.target, dt, nanZero)
         IN  [vel |-> r.vel, pos |-> r.pos, ctrl |-> r.ctrl, rot |-> r.rot,
              target |-> pf.target, last |-> pf.last,
              mpos |-> VAdd(r.pos, Vec(0, ModelAboveBody, 0)),
              call |-> r.call, refreshed |-> pf.refreshed,
              logged |-> r.logged, queried |-> r.queried, grounded |-> r.grounded,
              ran |-> TRUE, pursuing |-> TRUE, dist |-> r.dist,
              events |-> (IF pf.refreshed THEN <<"getPosition">> ELSE <<>>)
                         \o <<"translation">>
                         \o (IF r.call.called THEN <<"moveAICharacter">> ELSE <<>>)
                         \o <<"syncModel">>]

(* PerformanceOptimizer.updateFPS: the frames counted in a window of one   *)
(* second become the average once the window has passed.                   *)
updateFPS(count, window, avg) ==
    IF window >= FPSUpdatePeriod
    THEN [count |-> 0, window |-> 0, avg |-> count + 1]
    ELSE [count |-> count + 1, window |-> window, avg |-> avg]

(* Player.getPosition answering with the position the tick started from   *)
playerGetPositionStale(atTickStart, afterPlayerUpdate) == atTickStart

(* Player.getPosition as AIAgent.updatePathfinding calls it: the body's    *)
(* translation at that moment.  player.update has returned by then, so of  *)
(* the position the tick started from and the one player.update left, it   *)
(* is the second.                                                          *)
playerGetPosition(atTickStart, afterPlayerUpdate) == afterPlayerUpdate

(* The body of Engine.gameLoop past its isRunning test: clock.getDelta()   *)
(* (0 on the first pass), physics.update, player.update, aiAgent.update    *)
(* and the adaptive pathfinding rate.                                      *)
gameLoopPass ==
    /\ ticks < MaxTicks
    /\ \E dt \in (IF ticks = 0 THEN {0} ELSE DeltaTimes), nanZeroP, nanZeroA \in BOOLEAN :
          /\ inputDirection(keys, cameraHeading) = [x |-> 0, z |-> 0]
                \/ (LerpInRange(pVel.x, dt) /\ LerpInRange(pVel.z, dt))
          /\ \E p \in {PlayerTick(physics.characterController, errors, pVel, pPos, pCtrl,
                                  keys, cameraHeading, dt, nanZeroP)} :
             /\ nanZeroP \/ NonFiniteCall(p.call)
             /\ VecInRange(p.vel, MaxVel) /\ VecInRange(p.pos, MaxCoord)
             /\ \E a \in {AgentTick(physics.aiCharacterController, errors + p.logged, aReady,
                                    trackingEnabled, aVel, aPos, aCtrl, modelRotation,
                                    targetPosition, lastPathfindingUpdate,
                                    pathfindingUpdateRate, modelPos,
                                    playerGetPosition(pPos, p.pos), dt, nanZeroA)} :
                \E f \in {updateFPS(frameCount, fpsWindow + dt, averageFPS)} :
                 /\ nanZeroA \/ NonFiniteCall(a.call)
                 /\ VecInRange(a.vel, MaxVel) /\ VecInRange(a.pos, MaxCoord)
                 /\ deltaTime' = dt
                 /\ pVel' = p.vel /\ pPos' = p.pos /\ pCtrl' = p.ctrl
                 /\ pTick' = [ran |-> TRUE, vel0 |-> pVel, velA |-> p.velA,
                              grounded |-> p.grounded, keys0 |-> keys, pos0 |-> pPos,
                              translation |-> p.translation, call |-> p.call]
                 /\ errors' = errors + p.logged + a.logged
                 /\ cameraPos' = VAdd(p.pos, Vec(0, CameraAboveBody, 0))
                 /\ aVel' = a.vel /\ aPos' = a.pos /\ aCtrl' = a.ctrl
                 /\ aTick' = [ran |-> a.ran, pursuing |-> a.pursuing,
                              refreshed |-> a.refreshed, vel0 |-> aVel,
                              queried |-> a.queried, grounded |-> a.grounded,
                              ctrl0 |-> aCtrl, pos0 |-> aPos,
                              last0 |-> lastPathfindingUpdate, rate0 |-> pathfindingUpdateRate,
                              dist |-> a.dist, call |-> a.call]
                 /\ modelRotation' = a.rot /\ modelPos' = a.mpos
                 /\ targetPosition' = a.target /\ lastPathfindingUpdate' = a.last
                 /\ targetCopied' = (targetCopied \/ a.refreshed)
                 /\ sinceRefresh' = (IF a.refreshed THEN 0
                                     ELSE IF a.pursuing THEN sinceRefresh + 1
                                     ELSE sinceRefresh)
                 /\ frameCount' = f.count /\ fpsWindow' = f.window /\ averageFPS' = f.avg
                 /\ pathfindingUpdateRate' = getOptimizationSettings(f.avg)
                 /\ tickEvents' = <<"step">> \o p.events \o a.events
    /\ ticks' = ticks + 1
    /\ pc' = "frame"
    /\ UNCHANGED <<inputVars, aReady, physicsVars, levelVars>>

(* The animation-frame callback of a running engine: the pass, then        *)
(* requestAnimationFrame for the next one.                                 *)
gameLoop ==
    /\ pc = "frame" /\ engine.isRunning /\ engine.pending > 0
    /\ gameLoopPass
    /\ engine' = requestAnimationFrame([engine EXCEPT !.pending = @ - 1])

Next ==
    \/ KeyDown
    \/ KeyUp
    \/ toggleTracking
    \/ gameLoop

Spec == Init /\ [][Next]_vars

----------------------------------------------------------------------------
(* Physics.moveCharacter and Physics.moveAICharacter called directly: any   *)
(* handle (controller built or not, collider null or not, collider with or *)
(* without a parent body), any of a few desired translations, and whatever *)
(* the controller answers: what it computes over the open ground, or any   *)
(* other corrected movement (walls, slopes, a non-finite result).          *)

CallDesired == {Vec(0, -500000, 0), Vec(200000, -500000, 0), Vec(200000, 50, 0)}

CallAnswers ==
    [movement : {Vec(0, -100000, 0), Vec(200000, -100000, 0),
                 Vec(0, -100000, 150), Vec(0, -100000, NaN)},
     grounded : BOOLEAN]

(* The handle a call is made on: a null collider, a collider without a     *)
(* parent body, or the collider of a body.                                 *)
Handles == {[collider |-> FALSE, parent |-> FALSE], [collider |-> TRUE, parent |-> FALSE],
            [collider |-> TRUE, parent |-> TRUE]}

InitPhysics ==
    /\ aReady = TRUE
    /\ fpsWindow = 0
    /\ physics \in [characterController : BOOLEAN, aiCharacterController : BOOLEAN]
    /\ model = <<>> /\ colliders = <<>>
    /\ engine = EngineStarted
    /\ Constructed

callMoveCharacter ==
    /\ calls < MaxCalls
    /\ \E h \in Handles, desired \in CallDesired :
       \E answer \in CallAnswers \cup {computeColliderMovement(PlayerRest, pPos, desired, TRUE)} :
          \E r \in {moveCharacter(physics.characterController, h.collider, h.parent,
                                  pCtrl, pPos, desired, answer)} :
            /\ VecInRange(r.pos, MaxCoord)
            /\ pPos' = r.pos /\ pCtrl' = r.ctrl
            /\ errors' = errors + r.logged
            /\ pTick' = [NoPlayerTick EXCEPT
                            !.call = CallRecord(physics.characterController, h.collider,
                                                desired, answer, pPos, pCtrl, errors, r)]
            /\ aTick' = NoAgentTick
            /\ tickEvents' = <<"moveCharacter">>
    /\ calls' = calls + 1
    /\ UNCHANGED <<pc, ticks, deltaTime, inputVars, pVel, cameraPos, aReady, aVel, aPos,
                   aCtrl, targetPosition, targetCopied, sinceRefresh, lastPathfindingUpdate,
                   pathfindingUpdateRate,
                   modelRotation, modelPos, perfVars, fpsWindow, physics, levelVars, engine>>

(* moveAICharacter on one controller shared by both characters *)
callMoveAICharacterShared ==
    /\ calls < MaxCalls
    /\ \E h \in Handles, desired \in CallDesired :
       \E answer \in CallAnswers \cup {computeColliderMovement(AgentRest, aPos, desired, TRUE)} :
          \E r \in {moveAICharacter(physics.aiCharacterController, h.collider, h.parent,
                                    aCtrl, aPos, desired, answer)} :
            /\ VecInRange(r.pos, MaxCoord)
            /\ aPos' = r.pos /\ aCtrl' = r.ctrl /\ pCtrl' = r.ctrl
            /\ errors' = errors + r.logged
            /\ aTick' = [NoAgentTick EXCEPT
                            !.ctrl0 = aCtrl, !.pos0 = aPos,
                            !.call = CallRecord(physics.aiCharacterController, h.collider,
                                                desired, answer, aPos, aCtrl, errors, r)]
            /\ pTick' = NoPlayerTick
            /\ tickEvents' = <<"moveAICharacter">>
    /\ calls' = calls + 1
    /\ UNCHANGED <<pc, ticks, deltaTime, inputVars, pVel, pPos, cameraPos, aReady,
                   aVel, targetPosition, targetCopied, sinceRefresh, lastPathfindingUpdate,
                   pathfindingUpdateRate,
                   modelRotation, modelPos, perfVars, fpsWindow, physics, levelVars, engine>>

(* Physics.moveAICharacter called on the agent's handle: it computes on    *)
(* aiCharacterController only.                                             *)
callMoveAICharacter ==
    /\ calls < MaxCalls
    /\ \E h \in Handles, desired \in CallDesired :
       \E answer \in CallAnswers \cup {computeColliderMovement(AgentRest, aPos, desired, TRUE)} :
          \E r \in {moveAICharacter(physics.aiCharacterController, h.collider, h.parent,
                                    aCtrl, aPos, desired, answer)} :
            /\ VecInRange(r.pos, MaxCoord)
            /\ aPos' = r.pos /\ aCtrl' = r.ctrl
            /\ errors' = errors + r.logged
            /\ aTick' = [NoAgentTick EXCEPT
                            !.ctrl0 = aCtrl, !.pos0 = aPos,
                            !.call = CallRecord(physics.aiCharacterController, h.collider,
                                                desired, answer, aPos, aCtrl, errors, r)]
            /\ pTick' = NoPlayerTick
            /\ tickEvents' = <<"moveAICharacter">>
    /\ calls' = calls + 1
    /\ UNCHANGED <<pc, ticks, deltaTime, inputVars, pVel, pPos, pCtrl, cameraPos, aReady,
                   aVel, targetPosition, targetCopied, sinceRefresh, lastPathfindingUpdate,
                   pathfindingUpdateRate,
                   modelRotation, modelPos, perfVars, fpsWindow, physics, levelVars, engine>>

NextPhysics ==
    \/ callMoveCharacter
    \/ callMoveAICharacter

SpecPhysics == InitPhysics /\ [][NextPhysics]_vars

----------------------------------------------------------------------------
(* The engine's life: main() awaits Engine.init, whose first step          *)
(* Physics.init resolves or rejects, and calls Engine.start when init has  *)
(* resolved; start and stop are then called in any order, between the      *)
(* animation frames and between the callbacks of one frame.  An animation  *)
(* frame runs the callbacks requested before it began.                     *)

InitEngine ==
    /\ aReady = TRUE
    /\ fpsWindow = 0
    /\ physics = [characterController |-> FALSE, aiCharacterController |-> FALSE]
    /\ model = <<>> /\ colliders = <<>>
    /\ engine = [phase |-> "loading", isRunning |-> FALSE, pending |-> 0, due |-> 0,
                 steps |-> 0, calls |-> 0]
    /\ Constructed

physicsInitResolves ==
    /\ engine.phase = "loading"
    /\ physics' = [characterController |-> TRUE, aiCharacterController |-> TRUE]
    /\ engine' = [engine EXCEPT !.phase = "initialized"]
    /\ UNCHANGED <<pc, ticks, deltaTime, inputVars, playerVars, aReady, agentVars,
                   pathfindingUpdateRate, perfVars, fpsWindow, calls, errors,
                   tickEvents, levelVars>>

(* a main() that starts the engine whether or not init has resolved *)
physicsInitRejectsThenStarts ==
    /\ engine.phase = "loading"
    /\ gameLoopPass
    /\ engine' = requestAnimationFrame([engine EXCEPT !.phase = "failed",
                                                       !.isRunning = TRUE])

(* Physics.init rejects: the await in Engine.init throws, Engine.init      *)
(* rejects, and main()'s catch block reports it.                           *)
physicsInitRejects ==
    /\ engine.phase = "loading"
    /\ engine' = [engine EXCEPT !.phase = "failed"]
    /\ UNCHANGED worldVars

(* Engine.start: a stopped engine is set running and makes a pass at once *)
engineStart(e) ==
    IF ~e.isRunning
    THEN gameLoopPass /\ engine' = requestAnimationFrame([e EXCEPT !.isRunning = TRUE])
    ELSE engine' = e /\ UNCHANGED worldVars

(* main(): Engine.init has resolved, engine.start() *)
mainStart ==
    /\ engine.phase = "initialized"
    /\ engineStart([engine EXCEPT !.phase = "started"])

start ==
    /\ engine.phase = "started" /\ engine.calls < MaxEngineCalls
    /\ engineStart([engine EXCEPT !.calls = @ + 1])

stop ==
    /\ engine.phase = "started" /\ engine.calls < MaxEngineCalls
    /\ engine' = [engine EXCEPT !.isRunning = FALSE, !.calls = @ + 1]
    /\ UNCHANGED worldVars

(* the browser begins an animation frame *)
animationFrame ==
    /\ engine.due = 0 /\ engine.pending > 0
    /\ engine' = [engine EXCEPT !.due = engine.pending, !.pending = 0, !.steps = 0]
    /\ UNCHANGED worldVars

(* one callback of the frame: Engine.gameLoop *)
frameCallback ==
    /\ engine.due > 0
    /\ IF engine.isRunning
       THEN /\ gameLoopPass
            /\ engine' = requestAnimationFrame([engine EXCEPT !.due = @ - 1,
                                                              !.steps = @ + 1])
       ELSE /\ engine' = [engine EXCEPT !.due = @ - 1]
            /\ UNCHANGED worldVars

NextEngine ==
    \/ physicsInitResolves
    \/ physicsInitRejects
    \/ mainStart
    \/ start
    \/ stop
    \/ animationFrame
    \/ frameCallback

SpecEngine == InitEngine /\ [][NextEngine]_vars

----------------------------------------------------------------------------
(* Player.update and AIAgent.update called one at a time, with a duration  *)
(* of nothing, a tenth of a second or a whole second (for which the        *)
(* friction power is a real number), after any of a few inputs.            *)

UpdateDurations == {0, 10, 100}

UpdateKeys == {{}, {"keyw"}, {"space"}}

InitUpdate ==
    /\ aReady = TRUE
    /\ fpsWindow = 0
    /\ physics = [characterController |-> TRUE, aiCharacterController |-> TRUE]
    /\ model = <<>> /\ colliders = <<>>
    /\ engine = EngineStarted
    /\ pc = "frame" /\ ticks = 0 /\ deltaTime = 0 /\ inputEvents = 0
    /\ keys \in UpdateKeys
    /\ pVel = ZeroVec /\ pPos = PlayerStart /\ pCtrl = InitialController
    /\ cameraPos = PlayerStart /\ pTick = NoPlayerTick
    /\ aVel = ZeroVec
    /\ aPos = Vec(FallbackModelStart.x, FallbackModelStart.y + BodyAboveModel,
                  FallbackModelStart.z)
    /\ aCtrl = InitialController
    /\ targetPosition = ZeroVec /\ targetCopied = FALSE /\ lastPathfindingUpdate = 0
    /\ sinceRefresh = 0
    /\ pathfindingUpdateRate = InitialPathfindingRate
    /\ trackingEnabled \in BOOLEAN
    /\ modelRotation = [sx |-> 0, sz |-> 1] /\ modelPos = FallbackModelStart
    /\ aTick = NoAgentTick
    /\ frameCount = 0 /\ averageFPS = 60
    /\ errors = 0 /\ calls = 0 /\ tickEvents = <<>>

playerUpdate ==
    /\ ticks < MaxUpdates
    /\ \E dt \in UpdateDurations, nanZero \in BOOLEAN :
          /\ inputDirection(keys, cameraHeading) = [x |-> 0, z |-> 0]
                \/ (LerpInRange(pVel.x, dt) /\ LerpInRange(pVel.z, dt))
          /\ \E p \in {PlayerTick(physics.characterController, errors, pVel, pPos, pCtrl,
                                  keys, cameraHeading, dt, nanZero)} :
                /\ nanZero \/ NonFiniteCall(p.call)
                /\ VecInRange(p.vel, MaxVel) /\ VecInRange(p.pos, MaxCoord)
                /\ deltaTime' = dt
                /\ pVel' = p.vel /\ pPos' = p.pos /\ pCtrl' = p.ctrl
                /\ pTick' = [ran |-> TRUE, vel0 |-> pVel, velA |-> p.velA,
                             grounded |-> p.grounded, keys0 |-> keys, pos0 |-> pPos,
                             translation |-> p.translation, call |-> p.call]
                /\ errors' = errors + p.logged
                /\ cameraPos' = VAdd(p.pos, Vec(0, CameraAboveBody, 0))
                /\ tickEvents' = p.events
    /\ ticks' = ticks + 1
    /\ aTick' = NoAgentTick
    /\ UNCHANGED <<pc, inputVars, aReady, aVel, aPos, aCtrl, targetPosition,
                   targetCopied, sinceRefresh, lastPathfindingUpdate, modelRotation,
                   modelPos,
                   pathfindingUpdateRate, perfVars, fpsWindow, physicsVars, levelVars, engine>>

agentUpdate ==
    /\ ticks < MaxUpdates
    /\ \E dt \in UpdateDurations, nanZero \in BOOLEAN :
          /\ VecInRange(pPos, MaxCoord)
          /\ \E a \in {AgentTick(physics.aiCharacterController, errors, aReady,
                                 trackingEnabled, aVel, aPos, aCtrl, modelRotation,
                                 targetPosition, lastPathfindingUpdate,
                                 pathfindingUpdateRate, modelPos,
                                 playerGetPosition(pPos, pPos), dt, nanZero)} :
                /\ nanZero \/ NonFiniteCall(a.call)
                /\ VecInRange(a.vel, MaxVel) /\ VecInRange(a.pos, MaxCoord)
                /\ deltaTime' = dt
                /\ aVel' = a.vel /\ aPos' = a.pos /\ aCtrl' = a.ctrl
                /\ aTick' = [ran |-> a.ran, pursuing |-> a.pursuing,
                             refreshed |-> a.refreshed, vel0 |-> aVel,
                             queried |-> a.queried, grounded |-> a.grounded,
                             ctrl0 |-> aCtrl, pos0 |-> aPos,
                              last0 |-> lastPathfindingUpdate, rate0 |-> pathfindingUpdateRate,
                             dist |-> a.dist, call |-> a.call]
                /\ errors' = errors + a.logged
                /\ modelRotation' = a.rot /\ modelPos' = a.mpos
                /\ targetPosition' = a.target /\ lastPathfindingUpdate' = a.last
                /\ targetCopied' = (targetCopied \/ a.refreshed)
                /\ sinceRefresh' = (IF a.refreshed THEN 0
                                    ELSE IF a.pursuing THEN sinceRefresh + 1
                                    ELSE sinceRefresh)
                /\ tickEvents' = a.events
    /\ ticks' = ticks + 1
    /\ pTick' = NoPlayerTick
    /\ UNCHANGED <<pc, inputVars, aReady, pVel, pPos, pCtrl, cameraPos,
                   pathfindingUpdateRate, perfVars, fpsWindow, physicsVars, levelVars, engine>>

(* AIAgent.setPathfindingRate, as the engine calls it between two updates  *)
(* of the agent: with one of the periods getOptimizationSettings hands out *)
setPathfindingRate ==
    /\ \E rate \in {getOptimizationSettings(fps) : fps \in 0..MaxFPS} :
          pathfindingUpdateRate' = rate
    /\ UNCHANGED <<pc, ticks, deltaTime, inputVars, playerVars, aReady, agentVars,
                   perfVars, fpsWindow, physicsVars, errors, tickEvents, levelVars,
                   engine>>

NextUpdate ==
    \/ playerUpdate
    \/ agentUpdate
    \/ toggleTracking
    \/ setPathfindingRate

SpecUpdate == InitUpdate /\ [][NextUpdate]_vars

----------------------------------------------------------------------------
(* The agent in pursuit: Enter has been pressed once, and from then on the *)
(* agent is updated again and again with a positive duration while the     *)
(* engine changes its period between the updates.  The passes counted in   *)
(* ticks stop being counted at MaxTicks.  requestAnimationFrame keeps      *)
(* calling the loop back: updates keep occurring.  The update is enabled   *)
(* in every state, so that is weak fairness of it, WF_vars(pursuitUpdate), *)
(* written without ENABLED.                                                *)

PursuitDurations == {20, 100}

MinDuration == CHOOSE d \in PursuitDurations : \A e \in PursuitDurations : d <= e

CeilDiv(a, b) == (a + b - 1) \div b

InitPursuit ==
    /\ aReady = TRUE
    /\ fpsWindow = 0
    /\ physics = [characterController |-> TRUE, aiCharacterController |-> TRUE]
    /\ model = <<>> /\ colliders = <<>>
    /\ engine = EngineStarted
    /\ pc = "frame" /\ ticks = 0 /\ deltaTime = 0 /\ inputEvents = 1
    /\ keys = {}
    /\ pVel = ZeroVec /\ pPos = PlayerStart /\ pCtrl = InitialController
    /\ cameraPos = PlayerStart /\ pTick = NoPlayerTick
    /\ aVel = ZeroVec
    /\ aPos = Vec(FallbackModelStart.x, FallbackModelStart.y + BodyAboveModel,
                  FallbackModelStart.z)
    /\ aCtrl = InitialController
    /\ targetPosition = ZeroVec /\ targetCopied = FALSE /\ lastPathfindingUpdate = 0
    /\ sinceRefresh = 0
    /\ pathfindingUpdateRate = InitialPathfindingRate
    /\ trackingEnabled = TRUE
    /\ modelRotation = [sx |-> 0, sz |-> 1] /\ modelPos = FallbackModelStart
    /\ aTick = NoAgentTick
    /\ frameCount = 0 /\ averageFPS = 60
    /\ errors = 0 /\ calls = 0 /\ tickEvents = <<>>

pursuitUpdate ==
    /\ \E dt \in PursuitDurations, nanZero \in BOOLEAN :
          \E a \in {AgentTick(physics.aiCharacterController, errors, aReady,
                              trackingEnabled, aVel, aPos, aCtrl, modelRotation,
                              targetPosition, lastPathfindingUpdate,
                              pathfindingUpdateRate, modelPos,
                              playerGetPosition(pPos, pPos), dt, nanZero)} :
                /\ nanZero \/ NonFiniteCall(a.call)
                /\ VecInRange(a.vel, MaxVel) /\ VecInRange(a.pos, MaxCoord)
                /\ deltaTime' = dt
                /\ aVel' = a.vel /\ aPos' = a.pos /\ aCtrl' = a.ctrl
                /\ aTick' = [ran |-> a.ran, pursuing |-> a.pursuing,
                             refreshed |-> a.refreshed, vel0 |-> aVel,
                             queried |-> a.queried, grounded |-> a.grounded,
                             ctrl0 |-> aCtrl, pos0 |-> aPos,
                             last0 |-> lastPathfindingUpdate,
                             rate0 |-> pathfindingUpdateRate,
                             dist |-> a.dist, call |-> a.call]
                /\ errors' = errors + a.logged
                /\ modelRotation' = a.rot /\ modelPos' = a.mpos
                /\ targetPosition' = a.target /\ lastPathfindingUpdate' = a.last
                /\ targetCopied' = (targetCopied \/ a.refreshed)
                /\ sinceRefresh' = (IF a.refreshed THEN 0
                                    ELSE IF a.pursuing THEN sinceRefresh + 1
                                    ELSE sinceRefresh)
                /\ tickEvents' = a.events
    /\ ticks' = (IF ticks < MaxTicks THEN ticks + 1 ELSE ticks)
    /\ UNCHANGED <<pc, inputVars, aReady, playerVars,
                   pathfindingUpdateRate, perfVars, fpsWindow, physicsVars, levelVars, engine>>

NextPursuit ==
    \/ pursuitUpdate
    \/ setPathfindingRate

SpecPursuit == InitPursuit /\ [][NextPursuit]_vars /\ []<><<pursuitUpdate>>_vars

----------------------------------------------------------------------------
(* Physics.createModelCollider.  A model is the sequence of nodes that     *)
(* model.traverse visits, the model's root first.  geometry: the node is a *)
(* THREE.Mesh with a geometry (a submesh); trimeshFails: building its      *)
(* trimesh collider throws.  A collider is a trimesh of one submesh or a    *)
(* cuboid around the bounding box of the submeshes in covers.              *)

Nodes == [geometry : BOOLEAN, trimeshFails : BOOLEAN]

Models == UNION {[1..n -> Nodes] : n \in 1..MaxNodes}

Submeshes(m) == {i \in DOMAIN m : m[i].geometry}

(* the traverse callback with a catch block that only logs *)
meshColliderNoFallback(node, i) ==
    IF ~node.geometry \/ node.trimeshFails THEN <<>>
    ELSE <<[kind |-> "trimesh", covers |-> {i}]>>

(* The traverse callback on node i: nothing for a node that is no submesh, *)
(* the trimesh collider, or in the catch block the cuboid around the       *)
(* submesh's own bounding box.                                             *)
meshCollider(node, i) ==
    IF ~node.geometry THEN <<>>
    ELSE IF node.trimeshFails THEN <<[kind |-> "cuboid", covers |-> {i}]>>
    ELSE <<[kind |-> "trimesh", covers |-> {i}]>>

RECURSIVE traverse(_, _)
traverse(m, i) ==
    IF i > Len(m) THEN <<>> ELSE meshCollider(m[i], i) \o traverse(m, i + 1)

(* Box3.setFromObject(model): the box around every submesh of the model *)
createModelCollider(m) ==
    LET perMesh == traverse(m, 1)
    IN  IF Len(perMesh) = 0
        THEN <<[kind |-> "cuboid", covers |-> Submeshes(m)]>>
        ELSE perMesh

(* Engine.init handing a loaded model to createModelCollider *)
InitCollider ==
    /\ aReady = TRUE
    /\ fpsWindow = 0
    /\ physics = [characterController |-> TRUE, aiCharacterController |-> TRUE]
    /\ model \in Models /\ colliders = <<>>
    /\ engine = EngineStarted
    /\ Constructed

callCreateModelCollider ==
    /\ colliders = <<>>
    /\ colliders' = createModelCollider(model)
    /\ errors' = errors + Cardinality({i \in Submeshes(model) : model[i].trimeshFails})
    /\ UNCHANGED <<pc, ticks, deltaTime, inputVars, playerVars, aReady, agentVars,
                   pathfindingUpdateRate, perfVars, fpsWindow, physicsVars, tickEvents,
                   model, engine>>

NextCollider == callCreateModelCollider

SpecCollider == InitCollider /\ [][NextCollider]_vars

----------------------------------------------------------------------------
(* Properties *)

(* The planar distance from where the agent's body was at the start of its *)
(* last update to the target that update used.                             *)
distanceAtTick ==
    planarLength(FSub(targetPosition.x, aTick.pos0.x), FSub(targetPosition.z, aTick.pos0.z))

withinFollowDistance ==
    aTick.pursuing /\ ~IsNaN(distanceAtTick) /\ distanceAtTick <= followDistance

(* C1: grounding clamp.  Whenever Player.applyMovement or                  *)
(* AIAgent.updateMovement asks the grounded query, the answer is true and  *)
(* the vertical velocity it starts from is negative, the vertical velocity *)
(* after that tick's integration is exactly 0.                             *)
GroundingClamp ==
    /\ (pTick.ran /\ pTick.grounded /\ FLt(pTick.velA.y, 0)) => pVel.y = 0
    /\ (aTick.queried /\ aTick.grounded /\ FLt(aTick.vel0.y, 0)) => aVel.y = 0

GroundingClampWitness ==
    /\ pTick.ran /\ pTick.grounded /\ FLt(pTick.velA.y, 0) /\ pVel.y = 0
    /\ pTick.call.ctrl0.grounded

(* C2: vertical override.  A committing moveCharacter / moveAICharacter    *)
(* call moves the body vertically by the desired vertical delta when both  *)
(* corrected horizontal components are below the epsilon and the desired   *)
(* vertical component is above it, and by the controller's corrected       *)
(* vertical delta in every other case.                                     *)
VerticalOverride ==
    LET overridden(c) == /\ FAbsLt(c.corrected.x, Epsilon)
                         /\ FAbsLt(c.corrected.z, Epsilon)
                         /\ FAbsGt(c.desired.y, Epsilon)
        delta(c) == IF overridden(c) THEN c.desired.y ELSE c.corrected.y
    IN  /\ pTick.call.committed => pPos.y = FAdd(pTick.call.from.y, delta(pTick.call))
        /\ aTick.call.committed => aPos.y = FAdd(aTick.call.from.y, delta(aTick.call))

VerticalOverrideWitness ==
    /\ aTick.call.committed
    /\ aTick.call.desired.x # 0 /\ aTick.call.corrected.x = 0 /\ aTick.call.corrected.z = 0
    /\ aTick.call.desired.y # aTick.call.corrected.y
    /\ aPos.y = aTick.call.from.y + aTick.call.desired.y

(* C3: non-penetration.  When the desired translation of a committing call *)
(* takes the capsule from above the ground into it, and the controller has *)
(* answered with the movement that stops at the ground, no component of    *)
(* the committed translation is larger than the desired one and the        *)
(* committed position is not inside the ground.                            *)
NonPenetration ==
    LET crosses(rest, c) ==
            /\ c.committed /\ VecFinite(c.from) /\ VecFinite(c.desired)
            /\ c.corrected = computeColliderMovement(rest, c.from, c.desired, TRUE).movement
            /\ c.from.y - rest >= 0
            /\ OverFloor(c.from.x + c.desired.x, c.from.z + c.desired.z)
            /\ c.from.y + c.desired.y - rest < 0
        bounded(c) == /\ Abs(c.final.x) <= Abs(c.desired.x)
                      /\ Abs(c.final.y) <= Abs(c.desired.y)
                      /\ Abs(c.final.z) <= Abs(c.desired.z)
    IN  /\ crosses(PlayerRest, pTick.call) =>
              bounded(pTick.call) /\ ~InsideFloor(PlayerRest, pPos)
        /\ crosses(AgentRest, aTick.call) =>
              bounded(aTick.call) /\ ~InsideFloor(AgentRest, aPos)

(* C4: follow-distance threshold.  On a pursuing tick the agent calls the  *)
(* integrator only when its planar distance to the target is strictly      *)
(* greater than followDistance; otherwise its x and z are unchanged.       *)
FollowDistanceThreshold ==
    aTick.pursuing =>
        /\ aTick.call.called => FGt(distanceAtTick, followDistance)
        /\ ~FGt(distanceAtTick, followDistance) =>
              aPos.x = aTick.pos0.x /\ aPos.z = aTick.pos0.z

FollowDistanceWitness ==
    /\ withinFollowDistance /\ distanceAtTick > 0
    /\ ~aTick.call.called /\ aPos = aTick.pos0
    /\ aPos.x # FallbackModelStart.x

(* C5: within the follow distance the agent issues no horizontal movement  *)
(* but its vertical motion is processed: gravity accumulates when it is    *)
(* not grounded, a negative vertical velocity is reset when it is, and the *)
(* vertical translation is passed to the integrator.                       *)
VerticalWithinFollowDistance ==
    withinFollowDistance =>
        /\ aPos.x = aTick.pos0.x /\ aPos.z = aTick.pos0.z
        /\ aVel.y = applyGravity(aTick.vel0, aTick.ctrl0.grounded, deltaTime).y
        /\ Abs(aVel.y * deltaTime) > Epsilon =>
              /\ aTick.call.called
              /\ aTick.call.desired = Vec(0, aVel.y * deltaTime, 0)

(* C6: with tracking disabled the agent issues no horizontal movement but  *)
(* still goes through gravity / grounding every tick: when it is airborne  *)
(* its vertical velocity decreases by gravity x tick duration and it is    *)
(* moved downward through the integrator.                                  *)
IdleGravity ==
    (aTick.ran /\ ~aTick.pursuing) =>
        /\ aPos.x = aTick.pos0.x /\ aPos.z = aTick.pos0.z
        /\ ~aTick.ctrl0.grounded =>
              /\ aVel.y = aTick.vel0.y - Gravity * deltaTime
              /\ deltaTime > 0 => aTick.call.called /\ aPos.y < aTick.pos0.y

(* C7: jump.  With space held, a tick whose grounded query is true leaves  *)
(* the vertical velocity at jumpSpeed, and that is the velocity the        *)
(* translation is computed from; a tick whose grounded query is false      *)
(* leaves it at what gravity alone produces.                               *)
JumpOnlyGrounded ==
    (pTick.ran /\ "space" \in pTick.keys0) =>
        IF pTick.grounded
        THEN /\ pVel.y = jumpSpeed
             /\ pTick.call.called => pTick.call.desired.y = jumpSpeed * deltaTime
        ELSE pVel.y = pTick.vel0.y - Gravity * deltaTime

JumpWitness ==
    /\ pTick.ran /\ "space" \in pTick.keys0 /\ pTick.grounded
    /\ pTick.vel0.y < 0 /\ pVel.y = jumpSpeed
    /\ pTick.call.called /\ pTick.call.desired.y = jumpSpeed * deltaTime

(* C8: a call with a missing controller or a null collider changes no body *)
(* position and no controller state, writes one error line and returns.    *)
MissingHandleNoOp ==
    [][\A c \in {pTick'.call, aTick'.call} :
          (c.called /\ (~c.controller \/ ~c.collider)) =>
              /\ pPos' = pPos /\ pCtrl' = pCtrl
              /\ aPos' = aPos /\ aCtrl' = aCtrl
              /\ errors' = errors + 1
              /\ c.returned]_vars

MissingHandleWitness ==
    /\ aTick.call.called /\ aTick.call.controller /\ ~aTick.call.collider
    /\ errors = 2
    /\ aPos = aTick.call.from /\ aCtrl = aTick.call.ctrl0

(* C9: self-healing velocity.  For the player and the agent, a velocity    *)
(* component that is non-finite when a tick starts has been replaced       *)
(* before integration, whatever keys are held: the translation the tick    *)
(* passes to the integrator is finite in that component.                   *)
SelfHealingVelocity ==
    /\ \A k \in {"x", "y", "z"} :
          (pTick.ran /\ IsNaN(pTick.vel0[k]) /\ pTick.call.called) =>
              ~IsNaN(pTick.call.desired[k])
    /\ \A k \in {"x", "y", "z"} :
          (aTick.ran /\ IsNaN(aTick.vel0[k]) /\ aTick.call.called) =>
              ~IsNaN(aTick.call.desired[k])

(* C10: finite velocity.  From the zero velocity, after any sequence of    *)
(* player ticks, friction ticks included, no component of the player's     *)
(* velocity is non-finite.                                                 *)
FiniteVelocity == VecFinite(pVel)

(* C11: step ordering.  In every pass of the loop the world is stepped     *)
(* exactly once, after every desired-translation request of that pass      *)
(* (moveCharacter, moveAICharacter) and before every position read-back    *)
(* (the camera sync, the model sync).                                      *)
StepAfterRequests ==
    LET at(kinds) == {i \in DOMAIN tickEvents : tickEvents[i] \in kinds}
    IN  ticks > 0 =>
          /\ Cardinality(at({"step"})) = 1
          /\ \A s \in at({"step"}) :
                /\ \A r \in at({"moveCharacter", "moveAICharacter"}) : r < s
                /\ \A b \in at({"syncCamera", "syncModel"}) : s < b

(* C12: tick order.  A pass of the loop steps the world first, then the    *)
(* player commits its position, then the agent commits its own; a target   *)
(* refreshed in the pass is the position the player committed in the same  *)
(* pass, and the distance the agent decides on is measured to that target. *)
TickOrder ==
    LET at(kinds) == {i \in DOMAIN tickEvents : tickEvents[i] \in kinds}
    IN  ticks > 0 =>
          /\ tickEvents[1] = "step"
          /\ \A p \in at({"moveCharacter"}) : p > 1 /\ \A a \in at({"moveAICharacter"}) : p < a
          /\ pTick.call.committed => pPos = VAdd(pTick.pos0, pTick.call.final)
          /\ aTick.refreshed => targetPosition = pPos
          /\ aTick.pursuing =>
                aTick.dist = planarLength(FSub(targetPosition.x, aTick.pos0.x),
                                          FSub(targetPosition.z, aTick.pos0.z))

TickOrderWitness ==
    /\ tickEvents = <<"step", "moveCharacter", "syncCamera", "getPosition", "translation",
                      "moveAICharacter", "syncModel">>
    /\ pTick.call.committed /\ aTick.call.committed /\ aTick.refreshed
    /\ VecFinite(pPos) /\ pPos # pTick.pos0 /\ targetPosition = pPos

(* C13: fallback collider coverage.  For a model with one or more          *)
(* submeshes whose trimesh construction fails for every submesh,           *)
(* createModelCollider returns exactly one collider, the cuboid around the *)
(* bounding box of the whole model.                                        *)
WholeModelFallback ==
    (/\ colliders # <<>>
     /\ Submeshes(model) # {}
     /\ \A i \in Submeshes(model) : model[i].trimeshFails)
    => colliders = <<[kind |-> "cuboid", covers |-> Submeshes(model)]>>

(* C14: per-submesh fallback, as amended.  Every submesh gets exactly one  *)
(* collider of its own, in traversal order: its trimesh, or the cuboid     *)
(* around its own bounding box when the trimesh construction fails,        *)
(* whatever the other submeshes do; so a model with at least one submesh   *)
(* gets as many colliders as it has submeshes, and a model with none gets  *)
(* the single cuboid around the whole model.                               *)
PerSubmeshFallback ==
    colliders # <<>> =>
        /\ \A i \in Submeshes(model) :
              /\ Cardinality({k \in DOMAIN colliders : i \in colliders[k].covers}) = 1
              /\ \E k \in DOMAIN colliders :
                    /\ colliders[k].covers = {i}
                    /\ colliders[k].kind = IF model[i].trimeshFails THEN "cuboid" ELSE "trimesh"
                    /\ k = Cardinality({j \in Submeshes(model) : j <= i})
        /\ Submeshes(model) # {} => Len(colliders) = Cardinality(Submeshes(model))
        /\ Submeshes(model) = {} => colliders = <<[kind |-> "cuboid", covers |-> {}]>>

PerSubmeshFallbackWitness ==
    /\ Len(colliders) = 2 /\ Cardinality(Submeshes(model)) = 2
    /\ colliders[1].kind = "cuboid" /\ colliders[2].kind = "trimesh"

(* C15: bounded-rate target refresh.  On a pass in which the agent pursues *)
(* (it is ready and tracking is on) the target becomes the player's        *)
(* position exactly when the pass's duration added to the time accumulated *)
(* since the previous refresh reaches the current pathfinding period, and  *)
(* the accumulation restarts; otherwise the target is unchanged and the    *)
(* duration is added.  On a pass in which it does not pursue, target and   *)
(* accumulated time are unchanged.                                         *)
BoundedRateRefresh ==
    [][ticks' = ticks + 1 =>
          LET accumulated == lastPathfindingUpdate + deltaTime'
          IN  IF aReady /\ trackingEnabled
              THEN /\ aTick'.refreshed <=> accumulated >= pathfindingUpdateRate
                   /\ aTick'.refreshed =>
                         targetPosition' = pPos' /\ lastPathfindingUpdate' = 0
                   /\ ~aTick'.refreshed =>
                         /\ targetPosition' = targetPosition
                         /\ lastPathfindingUpdate' = accumulated
              ELSE /\ ~aTick'.refreshed
                   /\ targetPosition' = targetPosition
                   /\ lastPathfindingUpdate' = lastPathfindingUpdate]_vars

BoundedRateRefreshWitness ==
    /\ aTick.pursuing /\ ~aTick.refreshed
    /\ deltaTime > 0 /\ deltaTime < pathfindingUpdateRate
    /\ lastPathfindingUpdate = deltaTime
    /\ targetPosition # pPos

(* C16: one state machine for both characters.  When a pass gives the      *)
(* player (who does not jump) and the agent the same grounded result and   *)
(* the same duration from the same vertical velocity, both end the pass    *)
(* with the same vertical velocity; and when they also have the same       *)
(* horizontal velocity and get the same corrected movement, both commit    *)
(* the same position delta.                                                *)
SameGravityMachine ==
    (/\ ticks > 0 /\ pTick.ran /\ aTick.ran
     /\ pTick.velA.y = pTick.vel0.y
     /\ pTick.grounded = aTick.ctrl0.grounded
     /\ pTick.vel0.y = aTick.vel0.y)
    => /\ aVel.y = pVel.y
       /\ (/\ aVel.x = pVel.x /\ aVel.z = pVel.z
           /\ pTick.call.committed /\ aTick.call.committed
           /\ aTick.call.corrected = pTick.call.corrected)
          => aTick.call.final = pTick.call.final

(* C17: controller independence.  The player's controller state (its      *)
(* corrected movement and the answer of isGrounded) changes only in a step *)
(* that calls moveCharacter, where it becomes what that call computed, and *)
(* no moveAICharacter call changes it; the same for the agent's controller *)
(* and isAIGrounded with the roles exchanged.                              *)
ControllerIndependence ==
    [][/\ pCtrl' # pCtrl =>
             pTick'.call.called /\ pCtrl'.movement = pTick'.call.corrected
       /\ aCtrl' # aCtrl =>
             aTick'.call.called /\ aCtrl'.movement = aTick'.call.corrected
       /\ (aTick'.call.called /\ ~pTick'.call.called) =>
             /\ pCtrl' = pCtrl
             /\ isGrounded(physics.characterController, TRUE, pCtrl')
                  = isGrounded(physics.characterController, TRUE, pCtrl)
       /\ (pTick'.call.called /\ ~aTick'.call.called) =>
             /\ aCtrl' = aCtrl
             /\ isAIGrounded(physics.aiCharacterController, TRUE, aCtrl')
                  = isAIGrounded(physics.aiCharacterController, TRUE, aCtrl)]_vars

ControllerIndependenceWitness ==
    /\ calls = 2 /\ aTick.call.called /\ aTick.call.committed
    /\ aCtrl = [movement |-> aTick.call.corrected, grounded |-> FALSE]
    /\ pCtrl.grounded /\ pCtrl.movement # aCtrl.movement
    /\ isGrounded(physics.characterController, TRUE, pCtrl)
    /\ ~isAIGrounded(physics.aiCharacterController, TRUE, aCtrl)

FreeFall ==
    /\ (pTick.ran /\ ~pTick.grounded) =>
          /\ pVel.y = FAdd(pTick.vel0.y, -Gravity * deltaTime)
          /\ pTick.translation.y = FMul(pVel.y, deltaTime)
          /\ pTick.call.called => pTick.call.desired.y = FMul(pVel.y, deltaTime)
    /\ (aTick.queried /\ ~aTick.grounded) =>
          /\ aVel.y = FAdd(aTick.vel0.y, -Gravity * deltaTime)
          /\ aTick.call.called /\ aTick.call.desired.y = FMul(aVel.y, deltaTime)

FreeFallWitness ==
    /\ deltaTime > 0
    /\ pTick.ran /\ ~pTick.grounded /\ pTick.vel0.y < 0
    /\ pVel.y = pTick.vel0.y - Gravity * deltaTime
    /\ pTick.call.called /\ pTick.call.desired.y = pVel.y * deltaTime
    /\ aTick.queried /\ ~aTick.grounded /\ aTick.vel0.y < 0
    /\ aVel.y = aTick.vel0.y - Gravity * deltaTime

(* C20: single writer of position.  A body's position changes only in a   *)
(* step whose moveCharacter / moveAICharacter call commits, and then by    *)
(* exactly the committed movement, written once.  Key and tracking-toggle  *)
(* events change no position, and a pass in which a character makes no     *)
(* integrator call (its grounded queries, the target refresh, the camera   *)
(* and model syncs, getPosition and the pathfinding-rate change still      *)
(* happen) leaves that character's position unchanged.                     *)
SingleWriter ==
    [][/\ pPos' # pPos =>
             pTick'.call.committed /\ pPos' = VAdd(pPos, pTick'.call.final)
       /\ aPos' # aPos =>
             aTick'.call.committed /\ aPos' = VAdd(aPos, aTick'.call.final)
       /\ ticks' = ticks => pPos' = pPos /\ aPos' = aPos
       /\ (ticks' = ticks + 1 /\ ~pTick'.call.called) => pPos' = pPos
       /\ (ticks' = ticks + 1 /\ ~aTick'.call.called) => aPos' = aPos]_vars

SingleWriterWitness ==
    /\ pTick.call.committed /\ VecFinite(pPos) /\ pPos # pTick.pos0
    /\ pPos = VAdd(pTick.pos0, pTick.call.final)
    /\ cameraPos = VAdd(pPos, Vec(0, CameraAboveBody, 0))
    /\ trackingEnabled /\ aTick.pursuing /\ aTick.refreshed /\ ~aTick.call.called
    /\ aPos = aTick.pos0 /\ aPos.x # FallbackModelStart.x
    /\ modelPos = VAdd(aPos, Vec(0, ModelAboveBody, 0))
    /\ pathfindingUpdateRate # InitialPathfindingRate

(* C21: horizontal components are never overridden.  In every committing   *)
(* moveCharacter / moveAICharacter call the committed x and z deltas are   *)
(* the controller's corrected x and z; so when the corrected horizontal    *)
(* displacement is no larger than the desired one, neither is the          *)
(* committed one.                                                          *)
HorizontalNeverOverridden ==
    LET size(v) == (v.x \div 10) * (v.x \div 10) + (v.z \div 10) * (v.z \div 10)
        kept(c, pos) ==
            c.committed =>
                /\ c.final.x = c.corrected.x /\ c.final.z = c.corrected.z
                /\ pos.x = FAdd(c.from.x, c.corrected.x)
                /\ pos.z = FAdd(c.from.z, c.corrected.z)
                /\ (/\ VecFinite(c.corrected) /\ VecFinite(c.desired)
                    /\ size(c.corrected) <= size(c.desired))
                   => size(c.final) <= size(c.desired)
    IN  kept(pTick.call, pPos) /\ kept(aTick.call, aPos)

HorizontalNeverOverriddenWitness ==
    /\ pTick.call.committed
    /\ pTick.call.desired.x = 200000 /\ pTick.call.desired.z = 0
    /\ pTick.call.corrected.x = 0 /\ pTick.call.corrected.z = 150
    /\ pPos.x = pTick.call.from.x /\ pPos.z = pTick.call.from.z + 150

(* C22: fail-fast initialization.  When Physics.init has rejected, the     *)
(* engine is never started: it is not running, no pass of the loop has     *)
(* been made or is requested; and no pass is ever made without both        *)
(* character controllers of the physics world.                             *)
FailFast ==
    /\ engine.phase = "failed" =>
          /\ ~engine.isRunning /\ engine.pending = 0 /\ engine.due = 0
          /\ ticks = 0 /\ tickEvents = <<>>
    /\ ticks > 0 =>
          /\ engine.phase = "started"
          /\ physics.characterController /\ physics.aiCharacterController

FailFastWitness ==
    /\ engine.phase = "failed" /\ ~engine.isRunning /\ ticks = 0
    /\ ~physics.characterController

(* C23: non-fatal conditions never interrupt the tick loop.  After every   *)
(* pass made while the agent has no model or no physics body, the agent    *)
(* has not moved and has made no call on the physics world, the player's   *)
(* update of that pass has run, a translation of the player beyond epsilon *)
(* has been requested and committed to its body, and the callback of the   *)
(* next pass is requested.                                                 *)
NonFatalAbsorbed ==
    (ticks > 0 /\ ~aReady) =>
        /\ ~aTick.ran /\ ~aTick.call.called
        /\ aPos = aTick.pos0 /\ aVel = aTick.vel0 /\ modelPos = FallbackModelStart
        /\ pTick.ran
        /\ (\/ FAbsGt(pTick.translation.x, Epsilon)
            \/ FAbsGt(pTick.translation.y, Epsilon)
            \/ FAbsGt(pTick.translation.z, Epsilon)) =>
              /\ pTick.call.called /\ pTick.call.committed /\ pTick.call.returned
              /\ pPos = VAdd(pTick.call.from, pTick.call.final)
        /\ cameraPos = VAdd(pPos, Vec(0, CameraAboveBody, 0))
        /\ tickEvents[1] = "step"
        /\ engine.isRunning /\ engine.pending = 1

NonFatalAbsorbedWitness ==
    /\ ~aReady /\ trackingEnabled /\ ticks >= 2
    /\ ~aTick.ran /\ aPos = aTick.pos0
    /\ pTick.call.committed /\ pPos # pTick.pos0
    /\ engine.isRunning /\ engine.pending = 1

(* C24: adaptive refresh period.  After every pass of the loop the agent's *)
(* pathfinding period is the one chosen from the frames-per-second         *)
(* estimate of that pass: 0.5 s below 30 fps, 0.2 s from 30 to below 45,   *)
(* 0.1 s otherwise; it is always one of the three, and a lower estimate    *)
(* never gives a shorter period.                                           *)
AdaptivePeriod ==
    /\ ticks > 0 =>
          pathfindingUpdateRate =
              (IF averageFPS < 30 THEN TimePerSecond \div 2
               ELSE IF averageFPS < 45 THEN TimePerSecond \div 5
               ELSE TimePerSecond \div 10)
    /\ pathfindingUpdateRate \in {TimePerSecond \div 2, TimePerSecond \div 5,
                                  TimePerSecond \div 10}
    /\ \A f \in 0..MaxFPS :
          /\ f < 30 => getOptimizationSettings(f) = TimePerSecond \div 2
          /\ (30 <= f /\ f < 45) => getOptimizationSettings(f) = TimePerSecond \div 5
          /\ 45 <= f => getOptimizationSettings(f) = TimePerSecond \div 10
          /\ \A g \in f..MaxFPS : getOptimizationSettings(f) >= getOptimizationSettings(g)

AdaptivePeriodWitness ==
    /\ ticks > 0 /\ averageFPS < 30 /\ frameCount = 0
    /\ aTick.rate0 = TimePerSecond \div 10
    /\ pathfindingUpdateRate = TimePerSecond \div 2

(* C25: pursuit state is frozen while idle.  Every step taken with         *)
(* tracking disabled (an update of the agent, or tracking being enabled)   *)
(* and every step that disables tracking leaves the target position, the   *)
(* refresh accumulator, the agent's velocity and its facing angle as they  *)
(* were.                                                                   *)
FrozenWhileIdle ==
    [][(~trackingEnabled \/ trackingEnabled' # trackingEnabled) =>
          /\ targetPosition' = targetPosition
          /\ lastPathfindingUpdate' = lastPathfindingUpdate
          /\ aVel' = aVel
          /\ modelRotation' = modelRotation]_vars

FrozenWhileIdleWitness ==
    /\ ~trackingEnabled /\ aTick.ran /\ ~aTick.pursuing
    /\ lastPathfindingUpdate > 0 /\ aTick.last0 = lastPathfindingUpdate
    /\ aVel # ZeroVec /\ aVel = aTick.vel0
    /\ modelRotation # [sx |-> 0, sz |-> 1]

(* C26: single game loop.  Whatever start and stop calls are made between  *)
(* the frame callbacks, at most one game-loop callback is outstanding      *)
(* (requested for the next frame or waiting in the current one), and the   *)
(* world is stepped at most once in an animation frame.                    *)
SingleGameLoop ==
    /\ engine.pending + engine.due <= 1
    /\ engine.steps <= 1

(* C27: target validity.  Whenever an update of the agent has asked for a  *)
(* horizontal displacement, the target it moved toward had been copied     *)
(* from the player's position by a refresh of that update or an earlier    *)
(* one.                                                                    *)
TargetValidity ==
    (aTick.call.called /\ (aTick.call.desired.x # 0 \/ aTick.call.desired.z # 0)) =>
        targetCopied

(* C28: refresh accumulator bound.  After every pursuing update of the     *)
(* agent the accumulator is at least 0 and below the period the update     *)
(* ran with; the update refreshed exactly when the accumulated time had    *)
(* reached that period, and a refresh leaves the accumulator at 0 whatever *)
(* the overshoot, also when the period had been lowered below the time     *)
(* already accumulated.                                                    *)
AccumulatorBound ==
    aTick.pursuing =>
        /\ aTick.rate0 > 0
        /\ 0 <= lastPathfindingUpdate /\ lastPathfindingUpdate < aTick.rate0
        /\ aTick.refreshed <=> aTick.last0 + deltaTime >= aTick.rate0
        /\ aTick.refreshed => lastPathfindingUpdate = 0
        /\ ~aTick.refreshed => lastPathfindingUpdate = aTick.last0 + deltaTime

AccumulatorBoundWitness ==
    /\ aTick.pursuing /\ aTick.refreshed
    /\ aTick.last0 > aTick.rate0 /\ deltaTime > 0
    /\ lastPathfindingUpdate = 0

(* C29: refresh liveness.  While tracking stays enabled and the agent is   *)
(* updated again and again with a positive duration, a target refresh      *)
(* always comes again, whatever the changes of the period; and an update   *)
(* that did not refresh is one of fewer than ceil(period / minimum         *)
(* duration) updates since the last refresh, for the period it ran with,   *)
(* so the refresh comes within that many updates.                          *)
RefreshLiveness ==
    /\ []<>(aTick.pursuing /\ aTick.refreshed)
    /\ [](sinceRefresh > 0 ~> sinceRefresh = 0)
    /\ []((aTick.pursuing /\ ~aTick.refreshed) =>
             /\ sinceRefresh >= 1
             /\ sinceRefresh < CeilDiv(aTick.rate0, MinDuration))

RefreshLivenessWitness ==
    /\ trackingEnabled /\ aTick.pursuing /\ aTick.refreshed /\ sinceRefresh = 0
    /\ aTick.rate0 = TimePerSecond \div 2
    /\ aTick.last0 = (CeilDiv(aTick.rate0, MinDuration) - 1) * MinDuration
    /\ deltaTime = MinDuration
    /\ targetPosition = pPos

(* C30: player speed bound.  After an update of the player that started   *)
(* from zero horizontal velocity with a movement key held, neither         *)
(* horizontal component of the player's velocity exceeds moveSpeed in      *)
(* magnitude.                                                              *)
PlayerSpeedBound ==
    (/\ pTick.ran /\ pTick.vel0.x = 0 /\ pTick.vel0.z = 0
     /\ inputDirection(pTick.keys0, cameraHeading) # [x |-> 0, z |-> 0]) =>
        /\ ~IsNaN(pVel.x) /\ Abs(pVel.x) <= moveSpeed
        /\ ~IsNaN(pVel.z) /\ Abs(pVel.z) <= moveSpeed

(* C14 as stated: for every model the number of colliders returned equals  *)
(* the number of its geometry-bearing submeshes.                           *)
ColliderCountIsSubmeshCount ==
    colliders # <<>> => Len(colliders) = Cardinality(Submeshes(model))

====
